---- MODULE Spec2Model ----
(***************************************************************************)
(* Model of aws_cdk_patterns: CustomVpcPattern (network/vpc.py) and        *)
(* EC2InstancePattern (compute/ec2.py).                                    *)
(*                                                                         *)
(* A Python dict is a sequence of <<key, value>> pairs with unique keys,   *)
(* in insertion order.  Keyword arguments (kwargs) are functions whose     *)
(* DOMAIN is the set of keys the caller supplied.  The construct tree of   *)
(* the stack is the sequence `nodes` of node records, in creation order;   *)
(* a node's path is the sequence of construct ids from the stack down.     *)
(***************************************************************************)
EXTENDS Integers, Sequences, FiniteSets, TLC

VARIABLES
    context,          \* the app's context values (environment, project)
    nodes,            \* construct tree of the stack, in creation order
    vpc_pattern,      \* the CustomVpcPattern object
    ec2_pattern,      \* the EC2InstancePattern object
    calls             \* the arguments of the create_instance calls made, in order

vars == <<context, nodes, vpc_pattern, ec2_pattern, calls>>

(***************************************************************************)
(* Bounds of the inputs.                                                   *)
(***************************************************************************)
MaxAzsInput == 2
MaxNatInput == 1

(***************************************************************************)
(* Python dicts                                                            *)
(***************************************************************************)
Keys(d) == {d[i][1] : i \in 1..Len(d)}

HasKey(d, k) == k \in Keys(d)

Get(d, k) == d[CHOOSE i \in 1..Len(d) : d[i][1] = k][2]

\* d[k] = v: an existing key keeps its position, a new key goes last
SetItem(d, k, v) ==
    IF HasKey(d, k)
    THEN [i \in 1..Len(d) |-> IF d[i][1] = k THEN <<k, v>> ELSE d[i]]
    ELSE Append(d, <<k, v>>)

RECURSIVE Update(_, _)
\* {**a, **b}
Update(a, b) ==
    IF b = <<>> THEN a
    ELSE Update(SetItem(a, Head(b)[1], Head(b)[2]), Tail(b))

\* kwargs.get(key, default)
KwGet(kwargs, key, default) ==
    IF key \in DOMAIN kwargs THEN kwargs[key] ELSE default

IsPrefix(p, q) == Len(p) <= Len(q) /\ SubSeq(q, 1, Len(p)) = p

(***************************************************************************)
(* Context: self.node.try_get_context(key) or default.  A key that is not  *)
(* set gives None, and both None and "" are falsy.                         *)
(***************************************************************************)
TryGetContextOr(key, default) ==
    IF key \in DOMAIN context /\ context[key] # "" THEN context[key] ELSE default

(***************************************************************************)
(* CIDR text.  A string "a.b.c.d/p" is the record of its dot-separated     *)
(* numbers and of what follows the slash (<<>> when there is no slash).    *)
(***************************************************************************)
Cidr(a, b, c, d, p) == [octets |-> <<a, b, c, d>>, prefix |-> <<p>>]

DEFAULT_CIDR == Cidr(10, 0, 0, 0, 16)
DEFAULT_MAX_AZS == 2
DEFAULT_NAT_GATEWAYS == 1
SUBNET_MASK == 24

Pow2(n) == 2 ^ n

\* how many of the low bits of octet i lie in the host part of a /plen network
HostBitsInOctet(i, plen) ==
    IF 8 * i - plen <= 0 THEN 0
    ELSE IF 8 * i - plen >= 8 THEN 8
    ELSE 8 * i - plen

\* ipaddress.ip_network(cidr) (strict): four octets in 0..255, an optional
\* prefix length in 0..32 (32 when absent), and no host bit set
_is_valid_cidr(cidr) ==
    /\ Len(cidr.octets) = 4
    /\ \A i \in 1..Len(cidr.octets) : cidr.octets[i] \in 0..255
    /\ Len(cidr.prefix) <= 1
    /\ \A i \in 1..Len(cidr.prefix) : cidr.prefix[i] \in 0..32
    /\ LET plen == IF cidr.prefix = <<>> THEN 32 ELSE cidr.prefix[1]
       IN  \A i \in 1..4 : cidr.octets[i] % Pow2(HostBitsInOctet(i, plen)) = 0

(***************************************************************************)
(* The stack the patterns are created in.                                  *)
(***************************************************************************)
StackName == "TestStack"
Region == "REGION"

\* a construct registered in the tree; `tags` lists the Tags.of(..).add
\* calls that reach it, in order
Node(path, kind, props) == [path |-> path, kind |-> kind, props |-> props, tags |-> <<>>]

NoProps == [none |-> TRUE]

\* Tags.of(resource).add(key, value): tags the resource and everything
\* below it in the construct tree
TagsAdd(ns, resource, key, value) ==
    [i \in 1..Len(ns) |->
        IF IsPrefix(resource, ns[i].path)
        THEN [ns[i] EXCEPT !.tags = Append(@, <<key, value>>)]
        ELSE ns[i]]

RECURSIVE TagsAddAll(_, _, _)
\* for key, value in tags.items(): Tags.of(resource).add(key, value)
TagsAddAll(ns, resource, tags) ==
    IF tags = <<>> THEN ns
    ELSE TagsAddAll(TagsAdd(ns, resource, Head(tags)[1], Head(tags)[2]), resource, Tail(tags))

\* the tags a node ends with: a later add of a key replaces an earlier one
EffectiveTags(node) == Update(<<>>, node.tags)

NodeAt(ns, path) == ns[CHOOSE i \in 1..Len(ns) : ns[i].path = path]

HasNode(ns, path) == \E i \in 1..Len(ns) : ns[i].path = path

(***************************************************************************)
(* CustomVpcPattern                                                        *)
(***************************************************************************)
\* _init_config taking the caller's NAT gateway count as it is
VpcInitConfigNatAsSupplied(kwargs) ==
    LET cidr == KwGet(kwargs, "cidr", DEFAULT_CIDR)
    IN  IF ~_is_valid_cidr(cidr)
        THEN [error |-> "Invalid CIDR format"]
        ELSE [error |-> "",
              config |->
                [cidr |-> cidr,
                 max_azs |-> KwGet(kwargs, "max_azs", DEFAULT_MAX_AZS),
                 enable_internet |-> KwGet(kwargs, "enable_internet", TRUE),
                 nat_gateways |-> KwGet(kwargs, "nat_gateways", DEFAULT_NAT_GATEWAYS),
                 enable_ssm |-> KwGet(kwargs, "enable_ssm", TRUE),
                 enable_ec2_connect |-> KwGet(kwargs, "enable_ec2_connect", TRUE)]]

\* _init_config falling back to three zones, the default of ec2.Vpc itself
VpcInitConfigThreeZones(kwargs) ==
    LET cidr == KwGet(kwargs, "cidr", DEFAULT_CIDR)
    IN  IF ~_is_valid_cidr(cidr)
        THEN [error |-> "Invalid CIDR format"]
        ELSE [error |-> "",
              config |->
                [cidr |-> cidr,
                 max_azs |-> KwGet(kwargs, "max_azs", DEFAULT_MAX_AZS + 1),
                 enable_internet |-> KwGet(kwargs, "enable_internet", TRUE),
                 nat_gateways |->
                    IF KwGet(kwargs, "enable_internet", TRUE)
                    THEN KwGet(kwargs, "nat_gateways", DEFAULT_NAT_GATEWAYS)
                    ELSE 0,
                 enable_ssm |-> KwGet(kwargs, "enable_ssm", TRUE),
                 enable_ec2_connect |-> KwGet(kwargs, "enable_ec2_connect", TRUE)]]

\* CustomVpcPattern._init_config: the config, or the error it raises
VpcInitConfig(kwargs) ==
    LET cidr == KwGet(kwargs, "cidr", DEFAULT_CIDR)
    IN  IF ~_is_valid_cidr(cidr)
        THEN [error |-> "Invalid CIDR format"]
        ELSE [error |-> "",
              config |->
                [cidr |-> cidr,
                 max_azs |-> KwGet(kwargs, "max_azs", DEFAULT_MAX_AZS),
                 enable_internet |-> KwGet(kwargs, "enable_internet", TRUE),
                 nat_gateways |->
                    IF KwGet(kwargs, "enable_internet", TRUE)
                    THEN KwGet(kwargs, "nat_gateways", DEFAULT_NAT_GATEWAYS)
                    ELSE 0,
                 enable_ssm |-> KwGet(kwargs, "enable_ssm", TRUE),
                 enable_ec2_connect |-> KwGet(kwargs, "enable_ec2_connect", TRUE)]]

\* _validate_config without the check of max_azs
VpcValidateConfigNoZoneCheck(config) ==
    IF config.nat_gateways < 0 THEN "nat_gateways cannot be negative"
    ELSE IF config.nat_gateways > 0 /\ ~config.enable_internet
         THEN "NAT Gateways require internet access to be enabled"
    ELSE ""

\* CustomVpcPattern._validate_config: the error it raises, "" when none
VpcValidateConfig(config) ==
    IF config.max_azs < 1 THEN "max_azs must be at least 1"
    ELSE IF config.nat_gateways < 0 THEN "nat_gateways cannot be negative"
    ELSE IF config.nat_gateways > 0 /\ ~config.enable_internet
         THEN "NAT Gateways require internet access to be enabled"
    ELSE ""

SubnetConfiguration(name, subnet_type, cidr_mask) ==
    [name |-> name, subnet_type |-> subnet_type, cidr_mask |-> cidr_mask]

\* _get_subnet_configurations keeping the public group next to the isolated one
SubnetConfigurationsPublicKept(config) ==
    IF config.enable_internet
    THEN <<SubnetConfiguration("Public", "PUBLIC", SUBNET_MASK),
           SubnetConfiguration("Private", "PRIVATE_WITH_EGRESS", SUBNET_MASK)>>
    ELSE <<SubnetConfiguration("Public", "PUBLIC", SUBNET_MASK),
           SubnetConfiguration("Isolated", "PRIVATE_ISOLATED", SUBNET_MASK)>>

\* CustomVpcPattern._get_subnet_configurations
_get_subnet_configurations(config) ==
    IF config.enable_internet
    THEN <<SubnetConfiguration("Public", "PUBLIC", SUBNET_MASK),
           SubnetConfiguration("Private", "PRIVATE_WITH_EGRESS", SUBNET_MASK)>>
    ELSE <<SubnetConfiguration("Isolated", "PRIVATE_ISOLATED", SUBNET_MASK)>>

\* CustomVpcPattern._create_vpc: the tree with the ec2.Vpc added
_create_vpc(ns, self, config) ==
    Append(ns, Node(self \o <<"CustomVpc">>, "Vpc",
        [ip_addresses |-> config.cidr,
         max_azs |-> config.max_azs,
         nat_gateways |-> config.nat_gateways,
         subnet_configuration |-> _get_subnet_configurations(config)]))

IngressRule(peer_kind, peer, protocol, port, description) ==
    [peer_kind |-> peer_kind, peer |-> peer, protocol |-> protocol, port |-> port,
     description |-> description]

\* the endpoints dict of _create_ssm_endpoints
SsmEndpoints ==
    <<  <<"ssm", "com.amazonaws." \o Region \o ".ssm">>,
        <<"ssmmessages", "com.amazonaws." \o Region \o ".ssmmessages">>,
        <<"ec2messages", "com.amazonaws." \o Region \o ".ec2messages">> >>

RECURSIVE InterfaceEndpoints(_, _, _, _, _)
\* the loop of _create_ssm_endpoints over endpoints.items(): per entry the
\* imported service and the ec2.InterfaceVpcEndpoint, both scoped to self
InterfaceEndpoints(ns, self, vpc, sg, endpoints) ==
    IF endpoints = <<>> THEN ns
    ELSE LET name == Head(endpoints)[1]
             service == Node(self \o <<name \o "Service">>, "ImportedInterfaceVpcEndpoint",
                             [port |-> 443, vpc_endpoint_service_name |-> Head(endpoints)[2]])
             endpoint == Node(self \o <<name \o "Endpoint">>, "InterfaceVpcEndpoint",
                              [vpc |-> vpc,
                               service |-> service.path,
                               security_groups |-> <<sg>>,
                               private_dns_enabled |-> TRUE])
         IN  InterfaceEndpoints(Append(Append(ns, service), endpoint), self, vpc, sg,
                                Tail(endpoints))

\* CustomVpcPattern._create_ssm_endpoints: the tree with the endpoint security
\* group, the interface endpoints and the S3 gateway endpoint (a child of the
\* VPC: vpc.add_gateway_endpoint) added
_create_ssm_endpoints(ns, self, config) ==
    LET vpc == self \o <<"CustomVpc">>
        sg == self \o <<"EndpointSecurityGroup">>
        sgNode == Node(sg, "SecurityGroup",
                       [vpc |-> vpc,
                        description |-> "Security group for VPC Endpoints",
                        allow_all_outbound |-> TRUE,
                        ingress |-> <<IngressRule("ipv4", NodeAt(ns, vpc).props.ip_addresses,
                                                  "tcp", 443, "Allow HTTPS from VPC")>>])
        withEndpoints == InterfaceEndpoints(Append(ns, sgNode), self, vpc, sg, SsmEndpoints)
    IN  Append(withEndpoints,
               Node(vpc \o <<"s3Endpoint">>, "GatewayVpcEndpoint",
                    [vpc |-> vpc, service |-> "S3", security_groups |-> <<>>]))

\* CustomVpcPattern._create_instance_security_group
_create_instance_security_group(ns, self, config) ==
    Append(ns, Node(self \o <<"InstanceSecurityGroup">>, "SecurityGroup",
        [vpc |-> self \o <<"CustomVpc">>,
         description |-> "Security group for EC2 instances",
         allow_all_outbound |-> TRUE,
         ingress |->
            IF config.enable_ec2_connect
            THEN <<IngressRule("prefix_list",
                               "com.amazonaws." \o Region \o ".ec2-instance-connect",
                               "tcp", 22, "Allow SSH from EC2 Instance Connect")>>
            ELSE <<>>]))

\* CustomVpcPattern._create_instance_role
_create_instance_role(ns, self, config) ==
    Append(ns, Node(self \o <<"InstanceRole">>, "Role",
        [assumed_by |-> "ec2.amazonaws.com",
         managed_policies |-> <<"AmazonSSMManagedInstanceCore">>,
         policy_actions |->
            IF config.enable_ec2_connect
            THEN <<"ec2-instance-connect:SendSSHPublicKey">>
            ELSE <<>>]))

\* the default_tags dict of CustomVpcPattern._add_tags
VpcDefaultTags(environment) ==
    <<  <<"Environment", environment>>,
        <<"ManagedBy", "CDK">>,
        <<"Pattern", "CustomVpcPattern">>,
        <<"Project", TryGetContextOr("project", "default")>> >>

\* tags = {**default_tags, **additional_tags} in CustomVpcPattern._add_tags
VpcMergedTags(environment, additional_tags) ==
    Update(VpcDefaultTags(environment), additional_tags)

\* the resources list with the endpoint security group whatever enable_ssm is
VpcTaggedResourcesWithEndpointGroup(self, config) ==
    <<self \o <<"CustomVpc">>, self \o <<"InstanceSecurityGroup">>, self \o <<"InstanceRole">>,
      self \o <<"EndpointSecurityGroup">> >>

\* the resources list of CustomVpcPattern._add_tags
VpcTaggedResources(self, config) ==
    <<self \o <<"CustomVpc">>, self \o <<"InstanceSecurityGroup">>, self \o <<"InstanceRole">> >>
    \o (IF config.enable_ssm THEN <<self \o <<"EndpointSecurityGroup">> >> ELSE <<>>)

RECURSIVE TagResources(_, _, _)
\* for resource in resources: for key, value in tags.items(): ...
TagResources(ns, resources, tags) ==
    IF resources = <<>> THEN ns
    ELSE TagResources(TagsAddAll(ns, Head(resources), tags), Tail(resources), tags)

\* CustomVpcPattern._add_tags
_add_tags(ns, self, config, environment, additional_tags) ==
    TagResources(ns, VpcTaggedResources(self, config),
                 VpcMergedTags(environment, additional_tags))

CfnOutput(path, value, description, export_name) ==
    Node(path, "CfnOutput",
         [value |-> value, description |-> description, export_name |-> export_name])

\* CustomVpcPattern._create_outputs
_create_outputs(ns, self, id) ==
    Append(Append(ns,
        CfnOutput(self \o <<"VpcId">>, self \o <<"CustomVpc">>, "VPC ID", id \o "-vpc-id")),
        CfnOutput(self \o <<"InstanceSecurityGroupId">>, self \o <<"InstanceSecurityGroup">>,
                  "Instance Security Group ID", id \o "-instance-sg-id"))

\* CustomVpcPattern.__init__: the pattern object and the construct tree it
\* leaves, whether it returns or raises.  The object holds the attributes
\* assigned before the constructor ended; `raised` is the error, "" if none.
NewCustomVpcPattern(ns, id, kwargs) ==
    LET self == <<id>>
        registered == Append(ns, Node(self, "CustomVpcPattern", NoProps))
        environment == TryGetContextOr("environment", "development")
        init == VpcInitConfig(kwargs)
    IN  IF init.error # ""
        THEN [nodes |-> registered,
              obj |-> [id |-> id, kwargs |-> kwargs, raised |-> init.error,
                       environment |-> environment]]
        ELSE
        LET config == init.config
            invalid == VpcValidateConfig(config)
        IN  IF invalid # ""
            THEN [nodes |-> registered,
                  obj |-> [id |-> id, kwargs |-> kwargs, raised |-> invalid,
                           environment |-> environment, config |-> config]]
            ELSE
            LET withVpc == _create_vpc(registered, self, config)
                withSsm == IF config.enable_ssm
                           THEN _create_ssm_endpoints(withVpc, self, config)
                           ELSE withVpc
                withSg == _create_instance_security_group(withSsm, self, config)
                withRole == _create_instance_role(withSg, self, config)
                tagged == _add_tags(withRole, self, config, environment,
                                    KwGet(kwargs, "tags", <<>>))
                attrs == [id |-> id, kwargs |-> kwargs, raised |-> "",
                          environment |-> environment, config |-> config,
                          vpc |-> self \o <<"CustomVpc">>,
                          instance_security_group |-> self \o <<"InstanceSecurityGroup">>,
                          instance_role |-> self \o <<"InstanceRole">>]
                base == IF config.enable_ssm
                        THEN attrs @@ [endpoint_security_group |->
                                          self \o <<"EndpointSecurityGroup">>]
                        ELSE attrs
                resources == VpcTaggedResources(self, config)
            IN  \* _add_tags reads self.endpoint_security_group, an attribute
                \* that only _create_ssm_endpoints assigns
                IF \E i \in 1..Len(resources) : ~HasNode(withRole, resources[i])
                THEN [nodes |-> withRole,
                      obj |-> [base EXCEPT !.raised = "AttributeError"]]
                ELSE [nodes |-> _create_outputs(tagged, self, id), obj |-> base]

\* IVpcPattern accessors
get_vpc(pattern) == pattern.vpc

get_instance_role(pattern) == pattern.instance_role

get_instance_security_group(pattern) == pattern.instance_security_group

(***************************************************************************)
(* Inputs of CustomVpcPattern                                              *)
(***************************************************************************)
\* a keyword left out, or given with one of the values
Opt(key, values) == {<<>>} \cup {key :> v : v \in values}

CidrInputs ==
    { Cidr(172, 16, 0, 0, 16),                      \* "172.16.0.0/16"
      Cidr(10, 0, 0, 1, 16),                        \* "10.0.0.1/16": host bits set
      [octets |-> <<10, 0, 0>>, prefix |-> <<8>>] } \* "10.0.0/8"

VpcTagInputs ==
    { << <<"Environment", "pat-env">> >>,
      << <<"Owner", "pat-owner">>, <<"Environment", "pat-env">> >> }

PatternTagInputs ==
    { << <<"Environment", "pat-env">> >>,
      << <<"Owner", "pat-owner">>, <<"Environment", "pat-env">> >> }

VpcKwargs ==
    { a @@ b @@ c @@ d @@ e @@ f @@ g :
        a \in Opt("cidr", CidrInputs),
        b \in Opt("max_azs", 0..MaxAzsInput),
        c \in Opt("enable_internet", BOOLEAN),
        d \in Opt("nat_gateways", (-1)..MaxNatInput),
        e \in Opt("enable_ssm", BOOLEAN),
        f \in Opt("enable_ec2_connect", BOOLEAN),
        g \in Opt("tags", VpcTagInputs) }

VpcContexts ==
    { a @@ b :
        a \in Opt("environment", {"production"}),
        b \in Opt("project", {"apollo"}) }

Contexts ==
    { <<>>,
      "environment" :> "development",
      "environment" :> "production",
      "environment" :> "staging",
      ("environment" :> "production") @@ ("project" :> "apollo") }

NotConstructed == [raised |-> "not constructed"]

Constructed(pattern) == pattern.raised = ""

Failed(pattern) == pattern.raised \notin {"", "not constructed"}

(***************************************************************************)
(* EC2InstancePattern                                                      *)
(*                                                                         *)
(* A Python value is the record of its type and its content, so that the   *)
(* isinstance checks of _validate_config and the truth tests of            *)
(* create_instance are computed as Python computes them.                   *)
(***************************************************************************)
PyValue(type, value) == [type |-> type, value |-> value]

None == PyValue("NoneType", "None")

InstanceType(class, size) == PyValue("InstanceType", class \o "." \o size)

AmazonLinux2 == PyValue("IMachineImage", "AmazonLinuxImage(AMAZON_LINUX_2)")

SubnetType(name) == PyValue("SubnetType", name)

\* bool(x) of a value of these types: only None is falsy
Truthy(x) == x.type # "NoneType"

\* x or y
Or(x, y) == IF Truthy(x) THEN x ELSE y

Dict(d) == PyValue("dict", d)

\* tags or default, for tags a dict or None: None and {} are falsy
DictOr(tags, default) ==
    IF tags.type = "NoneType" \/ tags.value = <<>> THEN default ELSE tags.value

\* _get_environment_config with the production entry sized as development
EnvironmentConfigAllMicro(environment) ==
    << <<"instance_type", InstanceType("t3", "micro")>> >>

\* EC2InstancePattern._get_environment_config
_get_environment_config(environment) ==
    LET development == << <<"instance_type", InstanceType("t3", "micro")>> >>
        production == << <<"instance_type", InstanceType("t3", "small")>> >>
    IN  IF environment = "development" THEN development
        ELSE IF environment = "production" THEN production
        ELSE development

\* EC2InstancePattern._init_config
Ec2InitConfig(environment, kwargs) ==
    LET env_config == _get_environment_config(environment)
    IN  [instance_type |->
            KwGet(kwargs, "instance_type",
                  IF HasKey(env_config, "instance_type")
                  THEN Get(env_config, "instance_type")
                  ELSE InstanceType("t3", "micro")),
         machine_image |-> KwGet(kwargs, "machine_image", AmazonLinux2),
         subnet_type |-> KwGet(kwargs, "subnet_type", None)]

\* EC2InstancePattern._validate_config: the error it raises, "" when none
Ec2ValidateConfig(config) ==
    IF config.instance_type.type # "InstanceType"
    THEN "instance_type must be an ec2.InstanceType"
    ELSE IF config.machine_image.type # "IMachineImage"
    THEN "machine_image must implement ec2.IMachineImage"
    ELSE ""

\* EC2InstancePattern.__init__: the pattern object and the construct tree it
\* leaves, whether it returns or raises
NewEC2InstancePattern(ns, id, handle, kwargs) ==
    LET self == <<id>>
        registered == Append(ns, Node(self, "EC2InstancePattern", NoProps))
        environment == TryGetContextOr("environment", "development")
        config == Ec2InitConfig(environment, kwargs)
        invalid == Ec2ValidateConfig(config)
        base == [id |-> id, kwargs |-> kwargs, raised |-> invalid,
                 vpc_pattern |-> handle, environment |-> environment, config |-> config]
    IN  [nodes |-> registered,
         obj |-> IF invalid # ""
                 THEN base
                 ELSE base @@ [additional_tags |-> KwGet(kwargs, "tags", <<>>)]]

\* EC2InstancePattern._generate_resource_name
_generate_resource_name(id, resource_type) ==
    StackName \o "-" \o id \o "-" \o resource_type

\* the default_tags dict of EC2InstancePattern._add_instance_tags
Ec2DefaultTags(pattern) ==
    <<  <<"Name", _generate_resource_name(pattern.id, "instance")>>,
        <<"Environment", pattern.environment>>,
        <<"ManagedBy", "CDK">>,
        <<"Pattern", "EC2InstancePattern">>,
        <<"Project", TryGetContextOr("project", "default")>> >>

\* the merge with the pattern-level tags applied last
Ec2MergedTagsPatternLast(pattern, instance_tags) ==
    Update(Update(Ec2DefaultTags(pattern), instance_tags), pattern.additional_tags)

\* tags = {**default_tags, **self.additional_tags, **instance_tags}
Ec2MergedTags(pattern, instance_tags) ==
    Update(Update(Ec2DefaultTags(pattern), pattern.additional_tags), instance_tags)

\* EC2InstancePattern._add_instance_tags
_add_instance_tags(ns, pattern, instance, instance_tags) ==
    TagsAddAll(ns, instance, Ec2MergedTags(pattern, instance_tags))

\* EC2InstancePattern._create_instance_outputs
_create_instance_outputs(ns, pattern, instance, instance_id) ==
    LET self == <<pattern.id>>
    IN  Append(Append(ns,
            CfnOutput(self \o <<instance_id \o "InstanceId">>, instance,
                      "Instance ID of " \o instance_id,
                      pattern.id \o "-" \o instance_id \o "-instance-id")),
            CfnOutput(self \o <<instance_id \o "PrivateIp">>, instance,
                      "Private IP of " \o instance_id,
                      pattern.id \o "-" \o instance_id \o "-private-ip"))

\* create_instance writing the values it resolved back to self.config
SelfKeepingOverrides(pattern, instance_type, machine_image, subnet_type, tags) ==
    [pattern EXCEPT !.config =
        [instance_type |-> Or(instance_type, pattern.config.instance_type),
         machine_image |-> Or(machine_image, pattern.config.machine_image),
         subnet_type |-> Or(subnet_type, pattern.config.subnet_type)]]

\* EC2InstancePattern.create_instance: the pattern object it leaves.  The
\* resolved values are bound to the method's own names and the merged tags
\* are a new dict: no attribute of self is assigned
SelfAfterCreateInstance(pattern, instance_type, machine_image, subnet_type, tags) ==
    pattern

\* EC2InstancePattern.create_instance: the construct tree it leaves.
\* `handle` is the object self.vpc_pattern refers to; tags is a dict or None
NewInstance(ns, pattern, handle, id, instance_type, machine_image, subnet_type, user_data, tags) ==
    LET instance == <<pattern.id, id>>
        created == Append(ns, Node(instance, "Instance",
            [vpc |-> get_vpc(handle),
             vpc_subnets |-> Or(subnet_type, pattern.config.subnet_type),
             instance_type |-> Or(instance_type, pattern.config.instance_type),
             machine_image |-> Or(machine_image, pattern.config.machine_image),
             security_group |-> get_instance_security_group(handle),
             role |-> get_instance_role(handle),
             user_data |-> user_data]))
        tagged == _add_instance_tags(created, pattern, instance, DictOr(tags, <<>>))
    IN  _create_instance_outputs(tagged, pattern, instance, id)

(***************************************************************************)
(* Specification of the network pattern: a stack in which one              *)
(* CustomVpcPattern is constructed.                                        *)
(***************************************************************************)
Init ==
    /\ context \in VpcContexts
    /\ nodes = <<>>
    /\ vpc_pattern = NotConstructed
    /\ ec2_pattern = NotConstructed
    /\ calls = <<>>

\* CustomVpcPattern(stack, id, **kwargs) for kwargs in K
CustomVpcPatternOver(K) ==
    /\ vpc_pattern = NotConstructed
    /\ \E kwargs \in K :
          LET r == NewCustomVpcPattern(nodes, "Network", kwargs)
          IN  /\ nodes' = r.nodes
              /\ vpc_pattern' = r.obj
    /\ UNCHANGED <<context, ec2_pattern, calls>>

CustomVpcPattern == CustomVpcPatternOver(VpcKwargs)

Next == CustomVpcPattern

Spec == Init /\ [][Next]_vars

(***************************************************************************)
(* Inputs of EC2InstancePattern                                            *)
(***************************************************************************)
Ec2Kwargs ==
    { a @@ b @@ c @@ d :
        a \in Opt("instance_type", {InstanceType("m5", "large"), PyValue("str", "t3.micro")}),
        b \in Opt("machine_image", {PyValue("str", "ami-123")}),
        c \in Opt("subnet_type", {SubnetType("PUBLIC")}),
        d \in Opt("tags", PatternTagInputs) }

CallTagInputs ==
    { None,
      Dict(<< <<"Team", "call-team">> >>),
      Dict(<< <<"Owner", "call-owner">>, <<"Environment", "call-env">> >>) }

InstanceIds == {"web", "db"}

CallInputs ==
    [ id : InstanceIds,
      instance_type : {None, InstanceType("c5", "xlarge")},
      machine_image : {None, PyValue("IMachineImage", "call-ami")},
      subnet_type : {None, SubnetType("PRIVATE_ISOLATED")},
      user_data : {None},
      tags : CallTagInputs ]

\* EC2InstancePattern(stack, id, vpc_pattern, **kwargs) for kwargs in K
EC2InstancePatternOver(K) ==
    /\ Constructed(vpc_pattern)
    /\ ec2_pattern = NotConstructed
    /\ \E kwargs \in K :
          LET r == NewEC2InstancePattern(nodes, "Compute", vpc_pattern, kwargs)
          IN  /\ nodes' = r.nodes
              /\ ec2_pattern' = r.obj
    /\ UNCHANGED <<context, vpc_pattern, calls>>

EC2InstancePattern == EC2InstancePatternOver(Ec2Kwargs)

\* ec2_pattern.create_instance(id, ...), with an id not yet used in the pattern
create_instance ==
    /\ Constructed(ec2_pattern)
    /\ \E call \in CallInputs :
          /\ ~HasNode(nodes, <<ec2_pattern.id, call.id>>)
          /\ nodes' = NewInstance(nodes, ec2_pattern, ec2_pattern.vpc_pattern, call.id,
                                  call.instance_type, call.machine_image, call.subnet_type,
                                  call.user_data, call.tags)
          /\ ec2_pattern' = SelfAfterCreateInstance(ec2_pattern, call.instance_type,
                                                    call.machine_image, call.subnet_type,
                                                    call.tags)
          /\ calls' = Append(calls, call)
    /\ UNCHANGED <<context, vpc_pattern>>

(***************************************************************************)
(* Specification of the compute pattern: a stack holding a CustomVpcPattern*)
(* constructed with no overrides, in which one EC2InstancePattern is       *)
(* constructed and asked for instances.                                    *)
(***************************************************************************)
InitCompute ==
    /\ context \in Contexts
    /\ LET r == NewCustomVpcPattern(<<>>, "Network", <<>>)
       IN  /\ nodes = r.nodes
           /\ vpc_pattern = r.obj
    /\ ec2_pattern = NotConstructed
    /\ calls = <<>>

NextCompute == EC2InstancePattern \/ create_instance

SpecCompute == InitCompute /\ [][NextCompute]_vars

(***************************************************************************)
(* Specification of a stack with both patterns: a CustomVpcPattern is      *)
(* constructed from the network overrides that decide whether construction *)
(* succeeds, then an EC2InstancePattern is constructed against it.         *)
(***************************************************************************)
StackVpcKwargs ==
    { a @@ b @@ c @@ d :
        a \in Opt("cidr", CidrInputs),
        b \in Opt("max_azs", 0..MaxAzsInput),
        c \in Opt("enable_internet", BOOLEAN),
        d \in Opt("nat_gateways", (-1)..MaxNatInput) }

StackCustomVpcPattern == CustomVpcPatternOver(StackVpcKwargs)

NextStack == StackCustomVpcPattern \/ EC2InstancePattern

SpecStack == Init /\ [][NextStack]_vars

(***************************************************************************)
(* Properties of CustomVpcPattern                                          *)
(***************************************************************************)
Attempted(pattern) == pattern # NotConstructed

Resolved(pattern) == "config" \in DOMAIN pattern

Supplied(pattern, key) == key \in DOMAIN pattern.kwargs

VpcNode == NodeAt(nodes, vpc_pattern.vpc)

\* C1: whenever the config is resolved, internet disabled gives NAT count 0
\* whatever the caller supplied, so NAT count > 0 implies internet enabled;
\* the VPC is requested with the resolved NAT count and zone count (the
\* 172.16.0.0/16, 2 zones, internet disabled example gives 2 zones, 0 NAT).
C1_NatForcedToZero ==
    /\ Resolved(vpc_pattern) =>
        /\ ~vpc_pattern.config.enable_internet => vpc_pattern.config.nat_gateways = 0
        /\ vpc_pattern.config.nat_gateways > 0 => vpc_pattern.config.enable_internet
        /\ vpc_pattern.config.enable_internet
             = (IF Supplied(vpc_pattern, "enable_internet")
                THEN vpc_pattern.kwargs["enable_internet"] ELSE TRUE)
    /\ Constructed(vpc_pattern) =>
        /\ VpcNode.kind = "Vpc"
        /\ VpcNode.props.nat_gateways = vpc_pattern.config.nat_gateways
        /\ VpcNode.props.max_azs = vpc_pattern.config.max_azs
        /\ ( /\ DOMAIN vpc_pattern.kwargs = {"cidr", "max_azs", "enable_internet"}
             /\ vpc_pattern.kwargs["cidr"] = Cidr(172, 16, 0, 0, 16)
             /\ vpc_pattern.kwargs["max_azs"] = 2
             /\ vpc_pattern.kwargs["enable_internet"] = FALSE )
           => /\ VpcNode.props.max_azs = 2
              /\ VpcNode.props.nat_gateways = 0
              /\ VpcNode.props.ip_addresses = Cidr(172, 16, 0, 0, 16)

\* a VPC built with internet disabled although the caller asked for a NAT gateway
C1_Witness ==
    /\ Constructed(vpc_pattern)
    /\ Supplied(vpc_pattern, "enable_internet") /\ ~vpc_pattern.kwargs["enable_internet"]
    /\ Supplied(vpc_pattern, "nat_gateways") /\ vpc_pattern.kwargs["nat_gateways"] = 1
    /\ VpcNode.props.nat_gateways = 0

SubnetKinds(configs) == [i \in 1..Len(configs) |-> configs[i].subnet_type]

\* C2: the subnet topology passed to the VPC depends on the resolved
\* enable_internet only: false gives exactly [PrivateIsolated], true gives
\* exactly [Public, PrivateWithEgress] in that order; every group has
\* prefix length 24.
C2_SubnetTopology ==
    Constructed(vpc_pattern) =>
        LET topology == VpcNode.props.subnet_configuration
        IN  /\ SubnetKinds(topology) =
                 (IF vpc_pattern.config.enable_internet
                  THEN <<"PUBLIC", "PRIVATE_WITH_EGRESS">>
                  ELSE <<"PRIVATE_ISOLATED">>)
            /\ \A i \in 1..Len(topology) : topology[i].cidr_mask = 24

\* a VPC built with internet disabled and its single isolated subnet group
C2_Witness ==
    /\ Constructed(vpc_pattern)
    /\ ~vpc_pattern.config.enable_internet
    /\ Len(VpcNode.props.subnet_configuration) = 1

\* C3: construction with a supplied nat_gateways > 0 and an explicitly
\* supplied enable_internet = false fails.
C3_NatWithoutInternetFails ==
    ( /\ Attempted(vpc_pattern)
      /\ Supplied(vpc_pattern, "nat_gateways") /\ vpc_pattern.kwargs["nat_gateways"] > 0
      /\ Supplied(vpc_pattern, "enable_internet") /\ ~vpc_pattern.kwargs["enable_internet"] )
    => Failed(vpc_pattern)

\* C4: construction fails whenever the supplied max_azs is < 1 and whenever
\* the supplied nat_gateways is < 0, also with internet disabled; it
\* succeeds only if max_azs >= 1 and nat_gateways >= 0.
C4_RangeChecks ==
    Attempted(vpc_pattern) =>
        /\ (Supplied(vpc_pattern, "max_azs") /\ vpc_pattern.kwargs["max_azs"] < 1)
             => Failed(vpc_pattern)
        /\ (Supplied(vpc_pattern, "nat_gateways") /\ vpc_pattern.kwargs["nat_gateways"] < 0)
             => Failed(vpc_pattern)

ValidCidrSupplied(pattern) == _is_valid_cidr(KwGet(pattern.kwargs, "cidr", DEFAULT_CIDR))

Below(ns, id) == {i \in 1..Len(ns) : ns[i].path[1] = id}

\* C5 as stated: construction succeeds for every valid CIDR, and a failed
\* NetworkPattern or ComputePattern construction leaves the graph as it was
\* before the constructor was called.
C5_AllOrNothing ==
    /\ (Attempted(vpc_pattern) /\ ValidCidrSupplied(vpc_pattern)) => Constructed(vpc_pattern)
    /\ Failed(vpc_pattern) => Below(nodes, vpc_pattern.id) = {}
    /\ Failed(ec2_pattern) => Below(nodes, ec2_pattern.id) = {}

\* C5 amended: NetworkPattern construction succeeds exactly when the CIDR is
\* valid, max_azs >= 1 and, with internet enabled, nat_gateways >= 0; a failed
\* construction of either pattern has recorded the pattern's own construct
\* node and nothing else: no VPC, security group, role, endpoint or output.
C5_FailureRecordsOnlyThePattern ==
    /\ Attempted(vpc_pattern) =>
         ( Constructed(vpc_pattern) <=>
             /\ ValidCidrSupplied(vpc_pattern)
             /\ KwGet(vpc_pattern.kwargs, "max_azs", 2) >= 1
             /\ \/ ~KwGet(vpc_pattern.kwargs, "enable_internet", TRUE)
                \/ KwGet(vpc_pattern.kwargs, "nat_gateways", 1) >= 0 )
    /\ Failed(vpc_pattern) =>
         nodes = <<Node(<<vpc_pattern.id>>, "CustomVpcPattern", NoProps)>>
    /\ Failed(ec2_pattern) =>
         /\ Below(nodes, ec2_pattern.id) = {Len(nodes)}
         /\ nodes[Len(nodes)] = Node(<<ec2_pattern.id>>, "EC2InstancePattern", NoProps)

\* an EC2InstancePattern whose construction failed, in a stack with a network
C5_Witness ==
    /\ Constructed(vpc_pattern)
    /\ Failed(ec2_pattern)
    /\ HasNode(nodes, <<ec2_pattern.id>>)

ResourceKinds ==
    {"Vpc", "SecurityGroup", "InterfaceVpcEndpoint", "GatewayVpcEndpoint", "Role"}

\* the value the merge of the caller's tags over the defaults gives a key
ExpectedVpcTag(key) ==
    LET caller == KwGet(vpc_pattern.kwargs, "tags", <<>>)
    IN  IF HasKey(caller, key) THEN Get(caller, key)
        ELSE Get(VpcDefaultTags(vpc_pattern.environment), key)

ExpectedVpcTagKeys ==
    Keys(VpcDefaultTags(vpc_pattern.environment)) \cup Keys(KwGet(vpc_pattern.kwargs, "tags", <<>>))

CarriesMergedTags(node) ==
    /\ Keys(EffectiveTags(node)) = ExpectedVpcTagKeys
    /\ \A key \in ExpectedVpcTagKeys : Get(EffectiveTags(node), key) = ExpectedVpcTag(key)

\* C7: after a successful construction every resource the pattern created
\* (VPC, endpoint security group, interface endpoints, gateway endpoint,
\* instance security group, instance role) carries the full merged tag set.
C7_EveryResourceTagged ==
    Constructed(vpc_pattern) =>
        \A i \in 1..Len(nodes) :
            nodes[i].kind \in ResourceKinds => CarriesMergedTags(nodes[i])

\* C8 as stated: the defaults are 10.0.0.0/16, 3 zones, internet enabled and
\* 1 NAT gateway, each taken by an override that is left out.
C8_DefaultsWithThreeZones ==
    Resolved(vpc_pattern) =>
        /\ ~Supplied(vpc_pattern, "cidr") => vpc_pattern.config.cidr = Cidr(10, 0, 0, 0, 16)
        /\ ~Supplied(vpc_pattern, "max_azs") => vpc_pattern.config.max_azs = 3
        /\ ~Supplied(vpc_pattern, "enable_internet") => vpc_pattern.config.enable_internet
        /\ ~Supplied(vpc_pattern, "nat_gateways") => vpc_pattern.config.nat_gateways = 1

\* C8 amended: the defaults are 10.0.0.0/16, 2 zones, internet enabled and
\* 1 NAT gateway; an override that is left out takes its default, except
\* that the NAT gateway count is 0 when internet is disabled.
C8_Defaults ==
    Resolved(vpc_pattern) =>
        /\ ~Supplied(vpc_pattern, "cidr") => vpc_pattern.config.cidr = Cidr(10, 0, 0, 0, 16)
        /\ ~Supplied(vpc_pattern, "max_azs") => vpc_pattern.config.max_azs = 2
        /\ ~Supplied(vpc_pattern, "enable_internet") => vpc_pattern.config.enable_internet
        /\ ~Supplied(vpc_pattern, "nat_gateways") =>
             vpc_pattern.config.nat_gateways
               = (IF vpc_pattern.config.enable_internet THEN 1 ELSE 0)

\* a pattern constructed with no overrides at all
C8_Witness ==
    /\ Constructed(vpc_pattern)
    /\ DOMAIN vpc_pattern.kwargs = {}
    /\ VpcNode.props.max_azs = 2

OfKind(kind) == {i \in 1..Len(nodes) : nodes[i].kind = kind}

EndpointGroup == <<vpc_pattern.id, "EndpointSecurityGroup">>

HttpsFromVpc ==
    <<IngressRule("ipv4", vpc_pattern.config.cidr, "tcp", 443, "Allow HTTPS from VPC")>>

ValidationPasses(pattern) ==
    /\ Resolved(pattern)
    /\ pattern.config.max_azs >= 1
    /\ pattern.config.nat_gateways >= 0

\* C10 as stated: with enable_ssm the pattern creates the endpoint security
\* group (inbound TCP 443 from the VPC's CIDR), then three to six interface
\* endpoints and exactly one gateway endpoint, all bound to that group;
\* without it, no endpoint group and no endpoint, and construction completes.
C10_EndpointsAllBoundToGroup ==
    /\ Constructed(vpc_pattern) =>
        IF vpc_pattern.config.enable_ssm
        THEN /\ HasNode(nodes, EndpointGroup)
             /\ NodeAt(nodes, EndpointGroup).props.ingress = HttpsFromVpc
             /\ Cardinality(OfKind("InterfaceVpcEndpoint")) \in 3..6
             /\ Cardinality(OfKind("GatewayVpcEndpoint")) = 1
             /\ \A i \in OfKind("InterfaceVpcEndpoint") \cup OfKind("GatewayVpcEndpoint") :
                    /\ nodes[i].props.security_groups = <<EndpointGroup>>
                    /\ \E j \in 1..(i - 1) : nodes[j].path = EndpointGroup
        ELSE /\ ~HasNode(nodes, EndpointGroup)
             /\ OfKind("InterfaceVpcEndpoint") \cup OfKind("GatewayVpcEndpoint") = {}
    /\ (ValidationPasses(vpc_pattern) /\ ~vpc_pattern.config.enable_ssm)
         => Constructed(vpc_pattern)

\* C10 amended: with enable_ssm the pattern creates the endpoint security
\* group (inbound TCP 443 from the VPC's CIDR), then exactly three interface
\* endpoints, each bound to that group, and exactly one gateway endpoint,
\* which is created under the VPC and bound to no security group; without
\* enable_ssm there is no endpoint group and no endpoint, the pattern has no
\* endpoint_security_group attribute, and construction completes.
C10_EndpointsIffSsm ==
    /\ Constructed(vpc_pattern) =>
        IF vpc_pattern.config.enable_ssm
        THEN /\ HasNode(nodes, EndpointGroup)
             /\ NodeAt(nodes, EndpointGroup).kind = "SecurityGroup"
             /\ NodeAt(nodes, EndpointGroup).props.ingress = HttpsFromVpc
             /\ Cardinality(OfKind("InterfaceVpcEndpoint")) = 3
             /\ Cardinality(OfKind("GatewayVpcEndpoint")) = 1
             /\ \A i \in OfKind("InterfaceVpcEndpoint") :
                    /\ nodes[i].props.security_groups = <<EndpointGroup>>
                    /\ nodes[i].props.vpc = vpc_pattern.vpc
                    /\ \E j \in 1..(i - 1) : nodes[j].path = EndpointGroup
             /\ \A i \in OfKind("GatewayVpcEndpoint") :
                    /\ nodes[i].props.security_groups = <<>>
                    /\ IsPrefix(vpc_pattern.vpc, nodes[i].path)
                    /\ \E j \in 1..(i - 1) : nodes[j].path = EndpointGroup
        ELSE /\ ~HasNode(nodes, EndpointGroup)
             /\ "endpoint_security_group" \notin DOMAIN vpc_pattern
             /\ OfKind("InterfaceVpcEndpoint") \cup OfKind("GatewayVpcEndpoint") = {}
    /\ (ValidationPasses(vpc_pattern) /\ ~vpc_pattern.config.enable_ssm)
         => Constructed(vpc_pattern)

\* a pattern constructed with enable_ssm = False: tagged and with its outputs
C10_Witness ==
    /\ Constructed(vpc_pattern)
    /\ Supplied(vpc_pattern, "enable_ssm") /\ ~vpc_pattern.kwargs["enable_ssm"]
    /\ Cardinality(OfKind("CfnOutput")) = 2
    /\ VpcNode.tags # <<>>

(***************************************************************************)
(* Properties of EC2InstancePattern                                        *)
(***************************************************************************)
\* how many Tags.of(instance).add calls named the key
AddCalls(node, key) == Cardinality({i \in 1..Len(node.tags) : node.tags[i][1] = key})

\* C6: the tags applied to an instance are the merge of the defaults, the
\* pattern-level tags and the call-level tags in increasing precedence: a
\* key's value is the call-level one if the call gives the key, else the
\* pattern-level one if the pattern gives it, else the default; every key of
\* any layer is applied exactly once, and no other key is.
C6_TagPrecedence ==
    \A c \in 1..Len(calls) :
        LET instance == NodeAt(nodes, <<ec2_pattern.id, calls[c].id>>)
            defaults == Ec2DefaultTags(ec2_pattern)
            pattern == KwGet(ec2_pattern.kwargs, "tags", <<>>)
            call == IF calls[c].tags.type = "dict" THEN calls[c].tags.value ELSE <<>>
            layers == Keys(defaults) \cup Keys(pattern) \cup Keys(call)
        IN  /\ Keys(instance.tags) = layers
            /\ {"Name", "Environment", "ManagedBy", "Pattern", "Project"} \subseteq layers
            /\ \A key \in layers :
                /\ AddCalls(instance, key) = 1
                /\ Get(instance.tags, key) =
                     (IF HasKey(call, key) THEN Get(call, key)
                      ELSE IF HasKey(pattern, key) THEN Get(pattern, key)
                      ELSE Get(defaults, key))

\* an instance whose Environment tag is given by all three layers and whose
\* Owner tag by the pattern and the call
C6_Witness ==
    \E c \in 1..Len(calls) :
        /\ calls[c].tags.type = "dict"
        /\ HasKey(calls[c].tags.value, "Environment")
        /\ HasKey(KwGet(ec2_pattern.kwargs, "tags", <<>>), "Environment")
        /\ HasKey(KwGet(ec2_pattern.kwargs, "tags", <<>>), "Owner")
        /\ Get(NodeAt(nodes, <<ec2_pattern.id, calls[c].id>>).tags, "Environment") = "call-env"

\* C9: the resolved instance class is the caller's instance_type if one is
\* supplied; otherwise T3.SMALL when the environment context is
\* "production" and T3.MICRO when it is "development", unset or anything else.
C9_InstanceClass ==
    Attempted(ec2_pattern) =>
        ec2_pattern.config.instance_type =
            (IF Supplied(ec2_pattern, "instance_type")
             THEN ec2_pattern.kwargs["instance_type"]
             ELSE IF "environment" \in DOMAIN context /\ context["environment"] = "production"
             THEN PyValue("InstanceType", "t3.small")
             ELSE PyValue("InstanceType", "t3.micro"))

\* a pattern constructed in production without an instance_type override
C9_Witness ==
    /\ Constructed(ec2_pattern)
    /\ ~Supplied(ec2_pattern, "instance_type")
    /\ "environment" \in DOMAIN context /\ context["environment"] = "production"
    /\ ec2_pattern.config.instance_type.value = "t3.small"

\* the instance class, image and subnet kind the pattern was constructed with
ConstructionTime ==
    [instance_type |->
        IF Supplied(ec2_pattern, "instance_type") THEN ec2_pattern.kwargs["instance_type"]
        ELSE IF "environment" \in DOMAIN context /\ context["environment"] = "production"
        THEN PyValue("InstanceType", "t3.small")
        ELSE PyValue("InstanceType", "t3.micro"),
     machine_image |->
        IF Supplied(ec2_pattern, "machine_image") THEN ec2_pattern.kwargs["machine_image"]
        ELSE AmazonLinux2,
     subnet_type |->
        IF Supplied(ec2_pattern, "subnet_type") THEN ec2_pattern.kwargs["subnet_type"]
        ELSE None]

Given(override, default) == IF override.type = "NoneType" THEN default ELSE override

\* C11: a create_instance call leaves the pattern (resolved config,
\* pattern-level tags, capability handle), the network pattern and every
\* construct that existed before the call as they were; after any sequence
\* of calls every instance has the class, image and subnet kind of its own
\* call's overrides, or the construction-time values where the call gave
\* none, and is bound to the VPC, security group and role of the network
\* pattern given at construction.
C11_CallsLeaveThePattern ==
    [][ Constructed(ec2_pattern) =>
          /\ ec2_pattern' = ec2_pattern
          /\ ec2_pattern'.config = ConstructionTime
          /\ ec2_pattern'.additional_tags = KwGet(ec2_pattern.kwargs, "tags", <<>>)
          /\ ec2_pattern'.vpc_pattern = vpc_pattern
          /\ vpc_pattern' = vpc_pattern
          /\ Len(nodes') > Len(nodes)
          /\ SubSeq(nodes', 1, Len(nodes)) = nodes
          /\ \A c \in 1..Len(calls') :
                LET instance == NodeAt(nodes', <<ec2_pattern.id, calls'[c].id>>)
                IN  /\ instance.kind = "Instance"
                    /\ instance.props.instance_type =
                         Given(calls'[c].instance_type, ConstructionTime.instance_type)
                    /\ instance.props.machine_image =
                         Given(calls'[c].machine_image, ConstructionTime.machine_image)
                    /\ instance.props.vpc_subnets =
                         Given(calls'[c].subnet_type, ConstructionTime.subnet_type)
                    /\ instance.props.vpc = <<vpc_pattern.id, "CustomVpc">>
                    /\ instance.props.security_group =
                         <<vpc_pattern.id, "InstanceSecurityGroup">>
                    /\ instance.props.role = <<vpc_pattern.id, "InstanceRole">>
      ]_vars

\* a call without overrides made after a call that overrode all four, on a
\* pattern constructed with its own instance class
C11_Witness ==
    /\ Len(calls) = 2
    /\ calls[1].instance_type # None /\ calls[1].machine_image # None
    /\ calls[1].subnet_type # None /\ calls[1].tags # None
    /\ calls[2].instance_type = None /\ calls[2].machine_image = None
    /\ calls[2].subnet_type = None /\ calls[2].tags = None
    /\ Supplied(ec2_pattern, "instance_type")
    /\ NodeAt(nodes, <<ec2_pattern.id, calls[2].id>>).props.instance_type
         = ec2_pattern.kwargs["instance_type"]

====
